---- MODULE Spec2Model ----
(***************************************************************************)
(* Playback sequencing of soundplayer.cpp: SoundPlayer (playlist           *)
(* sequencer with gap timer) and SingleFilePlayer (looping calibration     *)
(* player), each driving its own audio sink.  Sink state changes reach the *)
(* players as notifications that are handled one at a time, in arrival     *)
(* order.                                                                  *)
(***************************************************************************)
EXTENDS Integers, Sequences, FiniteSets, TLC

(***************************************************************************)
(* Bounds of the model.                                                    *)
(***************************************************************************)
\* longest playlist, and number of distinct sound samples
MaxLen == 2
\* longest configurable silence gap, in timer ticks
MaxGap == 2
\* pending sink notifications beyond which no further command is issued
MaxQueue == 2

VARIABLES
    \* ---- SoundPlayer members
    playlist,           \* Playlist *playlist (NoPlaylist until setPlaylist)
    playlistIter,       \* the iterator handle (NullIter until playPlaylist)
    currentChannel,     \* SoundSample::Direction currentChannel
    volumeAdjust,       \* qreal volumeAdjust
    noSoundTimeSpanMs,  \* int noSoundTimeSpanMs
    timerInterval,      \* QTimer::interval of timeGapTimer, in ticks
    timeGapTimer,       \* QTimer: TimerOff = not running, else ticks left
    audioDevice,        \* QAudioOutput: state, pending notifications, volume
    \* ---- collaborators of the SoundPlayer
    iterKind,           \* which PlaylistIter implementation the playlists hand out
    opened,             \* sample streams whose isOpen() is true
    unopenable,         \* samples whose streams fail open(ReadOnly)
    \* ---- process
    crashed,            \* a null pointer was dereferenced
    \* ---- observation of the last step
    lastOp,             \* the operation or handler that ran last
    emitted,            \* signals emitted by the last step, in order
    sinkOps,            \* calls made on the sink by the last step, in order
    \* ---- history
    stoppedWhileActive, \* stopPlaylist hit a playing sink, and no playPlaylist since
    \* ---- an observer's log of the signals of one uninterrupted run
    events,
    \* ---- an observer's clock: ticks since the gap timer was started, or NotTimed
    elapsed,
    \* ---- SingleFilePlayer members
    file,               \* FileSound *file (NoFile until an accepted setFileSound)
    sfDevice,           \* QAudioOutput of the SingleFilePlayer
    \* ---- collaborators and observation of the SingleFilePlayer
    sfOpened,           \* files whose left stream isOpen()
    sfUnopenable,       \* files whose left stream fails open(ReadOnly)
    sfLastOp,
    sfEmitted,
    sfSinkOps,
    sfStopped           \* stop() was called and start() has not been called since

seqVars == <<playlist, playlistIter, currentChannel, volumeAdjust, noSoundTimeSpanMs,
             timerInterval, timeGapTimer, audioDevice, iterKind, opened, unopenable, crashed, lastOp,
             emitted, sinkOps, stoppedWhileActive>>
sfVars == <<file, sfDevice, sfOpened, sfUnopenable, sfLastOp, sfEmitted, sfSinkOps,
            sfStopped>>
vars == <<seqVars, events, elapsed, sfVars>>

(***************************************************************************)
(* Data                                                                    *)
(***************************************************************************)
PLAYLIST_ERROR == "Playlist error"
SOUND_SAMPLE_OPEN_ERROR == "Could not open a sound sample file"
DIRECTION_ERROR == "Incorrect SoundSample::Direction"

Samples == 1..MaxLen
\* SoundSample::Direction; "Other" is any value that is neither Left nor Right
Directions == {"Left", "Right", "Other"}
\* calibration offsets a caller may set
Adjustments == {-5, 5}
GapValues == 1..MaxGap

\* metadata of a sample: consecutive samples share a frequency (one sound set)
Freq(s) == (s + 1) \div 2
VolPercent(s) == 10 * s
VolDb(s) == 5 * s

NullDevice == <<0, "None">>
NoData == <<0, 0, 0>>

Signal(sig, msg, data) == [sig |-> sig, msg |-> msg, data |-> data]
currentPlaylistElement(data) == Signal("currentPlaylistElement", "", data)
stopPlaying == Signal("stopPlaying", "", NoData)
aboutToPlayNextElement == Signal("aboutToPlayNextElement", "", NoData)
playlistEnded == Signal("playlistEnded", "", NoData)
errorString(msg) == Signal("errorString", msg, NoData)

SinkCall(op, dev, vol) == [op |-> op, dev |-> dev, vol |-> vol]
CallSetVolume(v) == SinkCall("setVolume", NullDevice, v)
CallStart(dev) == SinkCall("start", dev, 0)
CallStop == SinkCall("stop", NullDevice, 0)

\* what the observer records as the step taken
Op(op, ch, n) == [op |-> op, ch |-> ch, n |-> n]

Range(q) == {q[i] : i \in 1..Len(q)}
Count(q, x) == Cardinality({i \in 1..Len(q) : q[i] = x})


Max(S) == CHOOSE x \in S : \A y \in S : y <= x

(***************************************************************************)
(* Audio sink (QAudioOutput): start, stop, setVolume; every change of its  *)
(* state is queued as a stateChanged notification.                         *)
(***************************************************************************)
SinkStates == {"Active", "Suspended", "Stopped", "Idle"}
NewSink == [state |-> "Stopped", queue |-> <<>>, volume |-> 0]

SinkSetState(s, st) ==
    IF s.state = st THEN s
    ELSE [s EXCEPT !.state = st, !.queue = Append(@, st)]
\* stop() of a stopped sink does nothing
SinkStop(s) == SinkSetState(s, "Stopped")
\* start() closes whatever was playing, then plays the new stream
SinkStart(s) == SinkSetState(SinkSetState(s, "Stopped"), "Active")
SinkSetVolume(s, v) == [s EXCEPT !.volume = v]
SinkPop(s) == [s EXCEPT !.queue = Tail(@)]

(***************************************************************************)
(* Playlist and PlaylistIter.  A playlist is a list of samples; the        *)
(* iterators it hands out are of one kind (iterKind) throughout a          *)
(* behaviour, and kinds differ in what stop() does.                        *)
(***************************************************************************)
IterKinds == {"halt", "rewind"}
Ascending(n) == [i \in 1..n |-> i]
Lists == {Ascending(n) : n \in 0..MaxLen} \cup {<<1, 1>>}
Playlists == Lists
NoPlaylist == <<0>>

NullIter == [list |-> <<>>, pos |-> -1, halted |-> FALSE]
\* Playlist::iterator(): a fresh iterator in front of the first entry
PlaylistIterator(p) == [list |-> p, pos |-> 0, halted |-> FALSE]
IterHasNext(it) == ~it.halted /\ it.pos < Len(it.list)
IterAdvance(it) == [it EXCEPT !.pos = @ + 1]
\* nextLeft() / nextRight(): the stream of the next entry and its volume
IterNextLeft(it) == <<<<it.list[it.pos + 1], "Left">>, VolPercent(it.list[it.pos + 1])>>
IterNextRight(it) == <<<<it.list[it.pos + 1], "Right">>, VolPercent(it.list[it.pos + 1])>>
\* getCurrentFrequency(), getCurrentVolumeDb(), getCurrentVolumePercent()
IterCurrent(it) ==
    IF it.pos >= 1 /\ it.pos <= Len(it.list)
    THEN <<Freq(it.list[it.pos]), VolDb(it.list[it.pos]), VolPercent(it.list[it.pos])>>
    ELSE NoData
IterSkipCurrentSoundSet(it) ==
    IF Len(it.list) = 0 THEN it
    ELSE LET cur == IF it.pos = 0 THEN 1 ELSE it.pos
             same == {j \in it.pos..Len(it.list) :
                        \A k \in (it.pos + 1)..j : Freq(it.list[k]) = Freq(it.list[cur])}
         IN [it EXCEPT !.pos = Max(same)]
IterStop(it) ==
    CASE iterKind = "halt" -> [it EXCEPT !.halted = TRUE]
      [] iterKind = "rewind" -> [it EXCEPT !.pos = 0]
      [] OTHER -> it

Openable(dev) == dev[1] \notin unopenable

(***************************************************************************)
(* Gap timer (QTimer, single shot)                                         *)
(***************************************************************************)
TimerOff == -1
TimerRunning == timeGapTimer # TimerOff
\* the observer's clock when it measures no gap
NotTimed == -1
\* Initial noSoundTimeSpanMs, in ticks
DefaultGap == 1


(***************************************************************************)
(* SoundPlayer                                                             *)
(***************************************************************************)
\* what a step records that emits em and makes the sink calls ops
Observe(op, em, ops) ==
    /\ lastOp' = op
    /\ emitted' = em
    /\ sinkOps' = ops

\* SoundPlayer::SoundPlayer, followed by setPlaylist(p) unless p is NoPlaylist,
\* setCorrectionAdjustVolume(percent) and setNoSoundTimeSpanMs(miliseconds)
Configured(p, percent, miliseconds) ==
    /\ playlist = p
    /\ playlistIter = NullIter
    /\ currentChannel = "Left"
    /\ volumeAdjust = percent
    /\ noSoundTimeSpanMs = miliseconds
    /\ timerInterval = miliseconds
    /\ timeGapTimer = TimerOff
    /\ audioDevice = NewSink
    /\ iterKind \in IterKinds
    /\ opened = {}
    /\ unopenable \in {{}} \cup {{s} : s \in Samples}
    /\ crashed = FALSE
    /\ lastOp = Op("construct", "", 0)
    /\ emitted = <<>>
    /\ sinkOps = <<>>
    /\ stoppedWhileActive = FALSE

\* SoundPlayer::SoundPlayer
SeqInit == Configured(NoPlaylist, 0, DefaultGap)

\* setNoSoundTimeSpanMs without timeGapTimer->setInterval
setNoSoundTimeSpanMs_KeepsInterval(miliseconds) ==
    /\ ~crashed
    /\ noSoundTimeSpanMs' = miliseconds
    /\ Observe(Op("setNoSoundTimeSpanMs", "", miliseconds), <<>>, <<>>)
    /\ UNCHANGED <<playlist, playlistIter, currentChannel, volumeAdjust, timerInterval,
                   timeGapTimer, audioDevice, iterKind, opened, unopenable, crashed,
                   stoppedWhileActive>>

\* SoundPlayer::setNoSoundTimeSpanMs; setInterval on a running timer either
\* leaves the wait in flight alone or restarts it with the new interval
setNoSoundTimeSpanMs(miliseconds) ==
    /\ ~crashed
    /\ noSoundTimeSpanMs' = miliseconds
    /\ timerInterval' = miliseconds
    /\ timeGapTimer' \in (IF TimerRunning THEN {timeGapTimer, miliseconds} ELSE {TimerOff})
    /\ Observe(Op("setNoSoundTimeSpanMs", "", miliseconds), <<>>, <<>>)
    /\ UNCHANGED <<playlist, playlistIter, currentChannel, volumeAdjust, audioDevice,
                   iterKind, opened, unopenable, crashed, stoppedWhileActive>>

\* SoundPlayer::setPlaylist
setPlaylist(p) ==
    /\ ~crashed
    /\ playlist' = p
    /\ Observe(Op("setPlaylist", "", 0), <<>>, <<>>)
    /\ UNCHANGED <<playlistIter, currentChannel, volumeAdjust, noSoundTimeSpanMs, timerInterval,
                   timeGapTimer, audioDevice, iterKind, opened, unopenable, crashed,
                   stoppedWhileActive>>

\* SoundPlayer::setCorrectionAdjustVolume
setCorrectionAdjustVolume(percent) ==
    /\ ~crashed
    /\ volumeAdjust' = percent
    /\ Observe(Op("setCorrectionAdjustVolume", "", percent), <<>>, <<>>)
    /\ UNCHANGED <<playlist, playlistIter, currentChannel, noSoundTimeSpanMs, timerInterval,
                   timeGapTimer, audioDevice, iterKind, opened, unopenable, crashed,
                   stoppedWhileActive>>

\* SoundPlayer::getSample on iterator it: the sample, and the iterator after the fetch
getSample(it, channel) ==
    CASE channel = "Left" -> [sample |-> IterNextLeft(it), iter |-> IterAdvance(it)]
      [] channel = "Right" -> [sample |-> IterNextRight(it), iter |-> IterAdvance(it)]
      [] OTHER -> [sample |-> <<NullDevice, 0>>, iter |-> it]

\* setAudioDevice with the calibration offset left out
SampleVolume_NoAdjust(volume) == volume

\* the volume setAudioDevice hands to the sink
SampleVolume(volume) == volume + volumeAdjust

\* setAudioDevice where the stream is (or has just been) open: audioDevice->start(device)
SampleStarted(device, volume, pre) ==
    /\ audioDevice' = SinkStart(SinkSetVolume(audioDevice, SampleVolume(volume)))
    /\ sinkOps' = <<CallSetVolume(SampleVolume(volume)), CallStart(device)>>
    /\ emitted' = pre

\* setAudioDevice that reports the failed open and starts the stream all the same
SampleOpenFailed_Starts(device, volume, pre) ==
    /\ audioDevice' = SinkStart(SinkSetVolume(audioDevice, volume + volumeAdjust))
    /\ sinkOps' = <<CallSetVolume(volume + volumeAdjust), CallStart(device)>>
    /\ emitted' = Append(pre, errorString(SOUND_SAMPLE_OPEN_ERROR))

\* setAudioDevice where open(ReadOnly) returned false
SampleOpenFailed(device, volume, pre) ==
    /\ audioDevice' = SinkSetVolume(audioDevice, SampleVolume(volume))
    /\ sinkOps' = <<CallSetVolume(SampleVolume(volume))>>
    /\ emitted' = Append(pre, errorString(SOUND_SAMPLE_OPEN_ERROR))

\* setAudioDevice that throws when the stream does not open, ending the process
setAudioDevice_Throws(device, volume, pre) ==
    /\ device # NullDevice
    /\ IF device \notin opened /\ ~Openable(device)
       THEN crashed' = TRUE /\ opened' = opened /\ SampleOpenFailed(device, volume, pre)
       ELSE /\ crashed' = FALSE
            /\ opened' = opened \cup {device}
            /\ SampleStarted(device, volume, pre)

\* SoundPlayer::setAudioDevice, in a handler that already emitted `pre`.
\* device->isOpen() on a null device is a null dereference: the process
\* faults, or the read yields either answer and so does open().
setAudioDevice(device, volume, pre) ==
    IF device = NullDevice
    THEN /\ opened' = opened
         /\ \/ /\ crashed' = TRUE
               /\ audioDevice' = SinkSetVolume(audioDevice, SampleVolume(volume))
               /\ sinkOps' = <<CallSetVolume(SampleVolume(volume))>>
               /\ emitted' = pre
            \/ crashed' = FALSE /\ SampleStarted(device, volume, pre)
            \/ crashed' = FALSE /\ SampleOpenFailed(device, volume, pre)
    ELSE /\ crashed' = FALSE
         /\ IF device \notin opened
            THEN IF Openable(device)
                 THEN opened' = opened \cup {device} /\ SampleStarted(device, volume, pre)
                 ELSE opened' = opened /\ SampleOpenFailed(device, volume, pre)
            ELSE opened' = opened /\ SampleStarted(device, volume, pre)

\* playPlaylist on an empty playlist that sets the volume before it looks at hasNext()
playPlaylistEmpty_TouchesSink(it) ==
    /\ playlistIter' = it
    /\ emitted' = <<errorString(PLAYLIST_ERROR)>>
    /\ sinkOps' = <<CallSetVolume(volumeAdjust)>>
    /\ audioDevice' = SinkSetVolume(audioDevice, volumeAdjust)
    /\ UNCHANGED <<opened, crashed, timeGapTimer>>

\* playPlaylist on an empty playlist that also cancels a gap in progress
playPlaylistEmpty_StopsTimer(it) ==
    /\ playlistIter' = it
    /\ emitted' = <<errorString(PLAYLIST_ERROR)>>
    /\ sinkOps' = <<>>
    /\ timeGapTimer' = TimerOff
    /\ UNCHANGED <<audioDevice, opened, crashed>>

\* playPlaylist where the fresh iterator `it` has no entry
playPlaylistEmpty(it) ==
    /\ playlistIter' = it
    /\ emitted' = <<errorString(PLAYLIST_ERROR)>>
    /\ sinkOps' = <<>>
    /\ UNCHANGED <<audioDevice, opened, crashed, timeGapTimer>>

\* playPlaylist that goes on with the iterator it holds, if it holds one
RunIterator_Kept ==
    IF playlistIter = NullIter THEN PlaylistIterator(playlist) ELSE playlistIter

\* the iterator a run starts with: resetPlaylist(), then playlist->iterator()
RunIterator == PlaylistIterator(playlist)

\* SoundPlayer::playPlaylist (with resetPlaylist)
playPlaylist(channel) ==
    /\ ~crashed
    /\ lastOp' = Op("playPlaylist", channel, 0)
    /\ stoppedWhileActive' = FALSE
    /\ IF playlist = NoPlaylist
       THEN \* playlist->iterator() through a null pointer
            /\ playlistIter' = NullIter
            /\ crashed' = TRUE
            /\ emitted' = <<>>
            /\ sinkOps' = <<>>
            /\ UNCHANGED <<currentChannel, audioDevice, opened, timeGapTimer>>
       ELSE /\ currentChannel' = channel
            /\ IF IterHasNext(RunIterator)
               THEN LET got == getSample(RunIterator, channel)
                    IN /\ playlistIter' = got.iter
                       /\ setAudioDevice(got.sample[1], got.sample[2], <<>>)
                       /\ UNCHANGED timeGapTimer
               ELSE playPlaylistEmpty(RunIterator)
    /\ UNCHANGED <<playlist, volumeAdjust, noSoundTimeSpanMs, timerInterval, iterKind, unopenable>>

\* SoundPlayer::skipCurrentSoundSet
skipCurrentSoundSet ==
    /\ ~crashed
    /\ IF playlistIter = NullIter
       THEN crashed' \in BOOLEAN /\ UNCHANGED playlistIter
       ELSE playlistIter' = IterSkipCurrentSoundSet(playlistIter) /\ UNCHANGED crashed
    /\ Observe(Op("skipCurrentSoundSet", "", 0), <<>>, <<>>)
    /\ UNCHANGED <<playlist, currentChannel, volumeAdjust, noSoundTimeSpanMs, timerInterval,
                   timeGapTimer, audioDevice, iterKind, opened, unopenable,
                   stoppedWhileActive>>

\* stopPlaylist without timeGapTimer->stop()
stopPlaylist_KeepsTimer ==
    /\ ~crashed
    /\ audioDevice' = SinkStop(audioDevice)
    /\ IF playlistIter = NullIter
       THEN crashed' \in BOOLEAN /\ UNCHANGED playlistIter
       ELSE playlistIter' = IterStop(playlistIter) /\ UNCHANGED crashed
    /\ stoppedWhileActive' =
          (stoppedWhileActive
             \/ (audioDevice.state = "Active" /\ audioDevice.queue = <<>>))
    /\ Observe(Op("stopPlaylist", "", 0), <<>>, <<CallStop>>)
    /\ UNCHANGED <<playlist, currentChannel, volumeAdjust, noSoundTimeSpanMs, timerInterval,
                   timeGapTimer, iterKind, opened, unopenable>>

\* SoundPlayer::stopPlaylist
stopPlaylist ==
    /\ ~crashed
    /\ audioDevice' = SinkStop(audioDevice)
    /\ timeGapTimer' = TimerOff
    /\ IF playlistIter = NullIter
       THEN crashed' \in BOOLEAN /\ UNCHANGED playlistIter
       ELSE playlistIter' = IterStop(playlistIter) /\ UNCHANGED crashed
    /\ stoppedWhileActive' =
          (stoppedWhileActive
             \/ (audioDevice.state = "Active" /\ audioDevice.queue = <<>>))
    /\ Observe(Op("stopPlaylist", "", 0), <<>>, <<CallStop>>)
    /\ UNCHANGED <<playlist, currentChannel, volumeAdjust, noSoundTimeSpanMs, timerInterval, iterKind,
                   opened, unopenable>>

\* onStateChanged whose Idle case emits stopPlaying before and after the stop
StateSignals_Twice(state, it) ==
    CASE state = "Active" -> <<currentPlaylistElement(IterCurrent(it))>>
      [] state = "Idle" -> <<stopPlaying, stopPlaying>>
      [] OTHER -> <<>>

\* onStateChanged with the Active and Idle cases swapped
StateSignals_Swapped(state, it) ==
    CASE state = "Idle" -> <<currentPlaylistElement(IterCurrent(it))>>
      [] state = "Active" -> <<stopPlaying>>
      [] OTHER -> <<>>

\* the signals onStateChanged emits for a notification, given the iterator
StateSignals(state, it) ==
    CASE state = "Active" -> <<currentPlaylistElement(IterCurrent(it))>>
      [] state = "Idle" -> <<stopPlaying>>
      [] OTHER -> <<>>

\* SoundPlayer::onStateChanged, run for the oldest pending notification
onStateChanged(state) ==
    /\ ~crashed
    /\ audioDevice.queue # <<>>
    /\ state = Head(audioDevice.queue)
    /\ lastOp' = Op("onStateChanged", state, 0)
    /\ CASE state = "Active" ->
              /\ IF playlistIter = NullIter
                 THEN crashed' = TRUE /\ emitted' = <<>>
                 ELSE /\ crashed' = FALSE
                      /\ emitted' = StateSignals(state, playlistIter)
              /\ audioDevice' = SinkPop(audioDevice)
              /\ sinkOps' = <<>>
              /\ UNCHANGED timeGapTimer
         [] state = "Suspended" ->
              /\ audioDevice' = SinkPop(audioDevice)
              /\ emitted' = StateSignals(state, playlistIter)
              /\ sinkOps' = <<>>
              /\ UNCHANGED <<timeGapTimer, crashed>>
         [] state = "Stopped" ->
              /\ timeGapTimer' = timerInterval
              /\ audioDevice' = SinkPop(audioDevice)
              /\ emitted' = StateSignals(state, playlistIter)
              /\ sinkOps' = <<>>
              /\ UNCHANGED crashed
         [] state = "Idle" ->
              /\ audioDevice' = SinkStop(SinkPop(audioDevice))
              /\ emitted' = StateSignals(state, playlistIter)
              /\ sinkOps' = <<CallStop>>
              /\ UNCHANGED <<timeGapTimer, crashed>>
    /\ UNCHANGED <<playlist, playlistIter, currentChannel, volumeAdjust,
                   noSoundTimeSpanMs, timerInterval, iterKind, opened, unopenable, stoppedWhileActive>>

\* playNextSample that reports the end of the playlist on every timeout
NextSampleSignals_AlwaysEnded(hasNext) == <<aboutToPlayNextElement, playlistEnded>>

\* the signals playNextSample emits, given what hasNext() answers
NextSampleSignals(hasNext) ==
    IF hasNext THEN <<aboutToPlayNextElement>>
    ELSE <<aboutToPlayNextElement, playlistEnded>>

\* SoundPlayer::playNextSample, the slot of timeGapTimer's timeout()
playNextSample ==
    /\ ~crashed
    /\ timeGapTimer = 0
    /\ timeGapTimer' = TimerOff
    /\ lastOp' = Op("playNextSample", "", 0)
    /\ IF playlistIter = NullIter
       THEN /\ crashed' = TRUE
            /\ emitted' = <<aboutToPlayNextElement>>
            /\ sinkOps' = <<>>
            /\ UNCHANGED <<playlistIter, audioDevice, opened>>
       ELSE IF IterHasNext(playlistIter)
            THEN LET got == getSample(playlistIter, currentChannel)
                 IN /\ playlistIter' = got.iter
                    /\ setAudioDevice(got.sample[1], got.sample[2],
                                      NextSampleSignals(TRUE))
            ELSE /\ emitted' = NextSampleSignals(FALSE)
                 /\ sinkOps' = <<>>
                 /\ UNCHANGED <<playlistIter, audioDevice, opened, crashed>>
    /\ UNCHANGED <<playlist, currentChannel, volumeAdjust, noSoundTimeSpanMs, timerInterval, iterKind,
                   unopenable, stoppedWhileActive>>

\* one tick of the running gap timer
Tick ==
    /\ ~crashed
    /\ timeGapTimer > 0
    /\ timeGapTimer' = timeGapTimer - 1
    /\ Observe(Op("tick", "", 0), <<>>, <<>>)
    /\ UNCHANGED <<playlist, playlistIter, currentChannel, volumeAdjust,
                   noSoundTimeSpanMs, timerInterval, audioDevice, iterKind, opened, unopenable,
                   crashed, stoppedWhileActive>>

\* a change of state that the sink makes by itself
SinkChange(from, to) ==
    /\ ~crashed
    /\ audioDevice.state = from
    /\ audioDevice' = SinkSetState(audioDevice, to)
    /\ Observe(Op("sink", to, 0), <<>>, <<>>)
    /\ UNCHANGED <<playlist, playlistIter, currentChannel, volumeAdjust,
                   noSoundTimeSpanMs, timerInterval, timeGapTimer, iterKind, opened, unopenable,
                   crashed, stoppedWhileActive>>
\* the sink has played the stream to its end
SinkDrain == SinkChange("Active", "Idle")
\* the platform suspends the playing sink, and later resumes it
SinkSuspend == SinkChange("Active", "Suspended")
SinkResume == SinkChange("Suspended", "Active")

(***************************************************************************)
(* SingleFilePlayer                                                        *)
(***************************************************************************)
NoFile == "none"
\* the FileSound objects a caller may pass; "noLeft" has an empty left url
FileSounds == {"toneA", "toneB", "noLeft"}
getLeftSoundUrlIsEmpty(f) == f = "noLeft"
\* FileSound::getSound(SoundSample::Direction::Left)
getSoundLeft(f) == <<f, "Left">>
\* volumes a caller may set on the single-file player
SfVolumes == {0, 50}

SfObserve(op, em, ops) ==
    /\ sfLastOp' = op
    /\ sfEmitted' = em
    /\ sfSinkOps' = ops

\* SingleFilePlayer::SingleFilePlayer
SfInit ==
    /\ file = NoFile
    /\ sfDevice = NewSink
    /\ sfOpened = {}
    /\ sfUnopenable \in {{}, {"toneB"}}
    /\ sfLastOp = Op("construct", "", 0)
    /\ sfEmitted = <<>>
    /\ sfSinkOps = <<>>
    /\ sfStopped = FALSE

\* setFileSound that accepts every source
setFileSound_Always(value) ==
    /\ file' = value
    /\ SfObserve(Op("setFileSound", value, 0), <<>>, <<>>)
    /\ UNCHANGED <<sfDevice, sfOpened, sfUnopenable, sfStopped>>

\* SingleFilePlayer::setFileSound
setFileSound(value) ==
    /\ file' = IF ~getLeftSoundUrlIsEmpty(value) THEN value ELSE file
    /\ SfObserve(Op("setFileSound", value, 0), <<>>, <<>>)
    /\ UNCHANGED <<sfDevice, sfOpened, sfUnopenable, sfStopped>>

\* SingleFilePlayer::setVolume
setVolume(volume) ==
    /\ sfDevice' = SinkSetVolume(sfDevice, volume)
    /\ SfObserve(Op("setVolume", "", volume), <<>>, <<CallSetVolume(volume)>>)
    /\ UNCHANGED <<file, sfOpened, sfUnopenable, sfStopped>>

\* SingleFilePlayer::getVolume
getVolume == sfDevice.volume

\* SingleFilePlayer::setAudioDevice
sfSetAudioDevice(device) ==
    IF device \notin sfOpened /\ device[1] \in sfUnopenable
    THEN /\ sfEmitted' = <<errorString(SOUND_SAMPLE_OPEN_ERROR)>>
         /\ sfSinkOps' = <<>>
         /\ UNCHANGED <<sfDevice, sfOpened>>
    ELSE /\ sfOpened' = sfOpened \cup {device}
         /\ sfDevice' = SinkStart(sfDevice)
         /\ sfSinkOps' = <<CallStart(device)>>
         /\ sfEmitted' = <<>>

\* SingleFilePlayer::stop
stop ==
    /\ sfDevice' = SinkStop(sfDevice)
    /\ sfStopped' = TRUE
    /\ SfObserve(Op("stop", "", 0), <<>>, <<CallStop>>)
    /\ UNCHANGED <<file, sfOpened, sfUnopenable>>

\* SingleFilePlayer::start
start ==
    /\ sfLastOp' = Op("start", "", 0)
    /\ sfStopped' = FALSE
    /\ IF file # NoFile
       THEN sfSetAudioDevice(getSoundLeft(file))
       ELSE /\ sfEmitted' = <<>>
            /\ sfSinkOps' = <<>>
            /\ UNCHANGED <<sfDevice, sfOpened>>
    /\ UNCHANGED <<file, sfUnopenable>>

\* onStateChanged of the single-file player with an Idle case that does nothing
sfOnStateChanged_NoRestart(state) ==
    /\ sfDevice.queue # <<>>
    /\ state = Head(sfDevice.queue)
    /\ file # NoFile
    /\ sfDevice' = SinkPop(sfDevice)
    /\ SfObserve(Op("onStateChanged", state, 0), <<>>, <<>>)
    /\ UNCHANGED <<file, sfOpened, sfUnopenable, sfStopped>>

\* SingleFilePlayer::onStateChanged, run for the oldest pending notification
sfOnStateChanged(state) ==
    /\ sfDevice.queue # <<>>
    /\ state = Head(sfDevice.queue)
    /\ file # NoFile
    /\ sfLastOp' = Op("onStateChanged", state, 0)
    /\ IF state = "Idle"
       THEN \E popped \in {SinkPop(sfDevice)} :
               IF getSoundLeft(file) \notin sfOpened /\ file \in sfUnopenable
               THEN /\ sfEmitted' = <<errorString(SOUND_SAMPLE_OPEN_ERROR)>>
                    /\ sfSinkOps' = <<>>
                    /\ sfDevice' = popped
                    /\ UNCHANGED sfOpened
               ELSE /\ sfOpened' = sfOpened \cup {getSoundLeft(file)}
                    /\ sfDevice' = SinkStart(popped)
                    /\ sfSinkOps' = <<CallStart(getSoundLeft(file))>>
                    /\ sfEmitted' = <<>>
       ELSE /\ sfDevice' = SinkPop(sfDevice)
            /\ sfEmitted' = <<>>
            /\ sfSinkOps' = <<>>
            /\ UNCHANGED sfOpened
    /\ UNCHANGED <<file, sfUnopenable, sfStopped>>

\* a change of state that the single-file player's sink makes by itself
SfSinkChange(from, to) ==
    /\ sfDevice.state = from
    /\ sfDevice' = SinkSetState(sfDevice, to)
    /\ SfObserve(Op("sink", to, 0), <<>>, <<>>)
    /\ UNCHANGED <<file, sfOpened, sfUnopenable, sfStopped>>
SfSinkDrain == SfSinkChange("Active", "Idle")
SfSinkSuspend == SfSinkChange("Active", "Suspended")
SfSinkResume == SfSinkChange("Suspended", "Active")

(***************************************************************************)
(* Spec: the sequencer under any order of playback commands, sink          *)
(* notifications and timer expiry.  The caller chooses the playlist before *)
(* the first run, may replace it by the empty playlist at any time, and    *)
(* issues no command while MaxQueue notifications wait.                    *)
(***************************************************************************)
Init ==
    /\ SeqInit
    /\ SfInit /\ sfUnopenable = {}
    /\ events = <<>>
    /\ elapsed = NotTimed

Quiet == UNCHANGED <<events, elapsed, sfVars>>
CanCommand == Len(audioDevice.queue) < MaxQueue

Next ==
    \/ \E p \in Playlists :
          (playlistIter = NullIter \/ p = <<>>) /\ setPlaylist(p) /\ Quiet
    \/ \E c \in Directions : CanCommand /\ playPlaylist(c) /\ Quiet
    \/ skipCurrentSoundSet /\ Quiet
    \/ CanCommand /\ stopPlaylist /\ Quiet
    \/ \E st \in SinkStates : onStateChanged(st) /\ Quiet
    \/ playNextSample /\ Quiet
    \/ Tick /\ Quiet
    \/ SinkDrain /\ Quiet
    \/ CanCommand /\ SinkSuspend /\ Quiet
    \/ SinkResume /\ Quiet

Spec == Init /\ [][Next]_vars

(***************************************************************************)
(* SpecRun: one uninterrupted run.  The player is configured, playPlaylist *)
(* is called once for the left or right channel on a playlist whose        *)
(* streams all open, and from then on only the sink, the timer and the     *)
(* handlers act.  The observer logs every signal in `events`.              *)
(***************************************************************************)
RunInit ==
    /\ \E p \in Playlists \ {<<>>} : \E o \in Adjustments \cup {0} : \E d \in GapValues :
          Configured(p, o, d)
    /\ unopenable = {}
    /\ SfInit /\ sfUnopenable = {}
    /\ events = <<>>
    /\ elapsed = NotTimed

Logged == events' = events \o emitted' /\ UNCHANGED <<elapsed, sfVars>>

RunStart ==
    /\ playlistIter = NullIter
    /\ \E c \in {"Left", "Right"} : playPlaylist(c)
    /\ Logged
RunDeliver == (\E st \in SinkStates : onStateChanged(st)) /\ Logged
RunTimeout == playNextSample /\ Logged
RunTick == Tick /\ Logged
RunDrain == SinkDrain /\ Logged

RunNext == RunStart \/ RunDeliver \/ RunTimeout \/ RunTick \/ RunDrain

\* the event loop delivers every notification and timeout, time passes, and
\* the sink plays a sample to its end
SpecRun ==
    /\ RunInit /\ [][RunNext]_vars
    /\ WF_vars(RunStart) /\ WF_vars(RunDeliver) /\ WF_vars(RunTimeout)
    /\ WF_vars(RunTick) /\ WF_vars(RunDrain)

(***************************************************************************)
(* SpecVolume: runs interleaved with changes of the calibration offset.    *)
(***************************************************************************)
VolumeNext ==
    \/ \E o \in Adjustments \cup {0} : setCorrectionAdjustVolume(o) /\ Quiet
    \/ \E p \in Playlists : playlistIter = NullIter /\ setPlaylist(p) /\ Quiet
    \/ \E c \in {"Left", "Right"} : CanCommand /\ playPlaylist(c) /\ Quiet
    \/ \E st \in SinkStates : onStateChanged(st) /\ Quiet
    \/ playNextSample /\ Quiet
    \/ Tick /\ Quiet
    \/ SinkDrain /\ Quiet

SpecVolume == Init /\ [][VolumeNext]_vars

(***************************************************************************)
(* SpecGap: runs on the left channel, with stops, interleaved with changes *)
(* of the gap duration.  The observer's clock counts the ticks since the   *)
(* gap timer was last started; it measures nothing once the duration is    *)
(* changed during the wait or the wait is cancelled.                       *)
(***************************************************************************)
GapInit ==
    /\ \E p \in Playlists \ {<<>>} : Configured(p, 0, DefaultGap)
    /\ unopenable = {}
    /\ SfInit /\ sfUnopenable = {}
    /\ events = <<>>
    /\ elapsed = NotTimed

Clocked ==
    /\ elapsed' =
          CASE lastOp' = Op("onStateChanged", "Stopped", 0) -> 0
            [] lastOp'.op = "tick" /\ elapsed # NotTimed -> elapsed + 1
            [] lastOp'.op = "setNoSoundTimeSpanMs" /\ TimerRunning -> NotTimed
            [] lastOp'.op = "stopPlaylist" -> NotTimed
            [] OTHER -> elapsed
    /\ UNCHANGED <<events, sfVars>>

GapNext ==
    \/ \E d \in GapValues : setNoSoundTimeSpanMs(d) /\ Clocked
    \/ CanCommand /\ playPlaylist("Left") /\ Clocked
    \/ CanCommand /\ stopPlaylist /\ Clocked
    \/ \E st \in SinkStates : onStateChanged(st) /\ Clocked
    \/ playNextSample /\ Clocked
    \/ Tick /\ Clocked
    \/ SinkDrain /\ Clocked

SpecGap == GapInit /\ [][GapNext]_vars

(***************************************************************************)
(* SpecRecover: runs on the left or right channel of playlists that the    *)
(* caller replaces at any time, one stream of which may fail to open.  The *)
(* observer keeps in `events` the first of every error message reported.   *)
(***************************************************************************)
RecoverInit ==
    /\ \E p \in Playlists : Configured(p, 0, DefaultGap)
    /\ iterKind = "halt"
    /\ SfInit /\ sfUnopenable = {}
    /\ events = <<>>
    /\ elapsed = NotTimed

NewError(e) == e.sig = "errorString" /\ e \notin Range(events)
ErrorLogged ==
    /\ events' = events \o SelectSeq(emitted', NewError)
    /\ UNCHANGED <<elapsed, sfVars>>

RecoverNext ==
    \/ \E p \in Playlists : setPlaylist(p) /\ ErrorLogged
    \/ \E c \in {"Left", "Right"} : CanCommand /\ playPlaylist(c) /\ ErrorLogged
    \/ \E st \in SinkStates : onStateChanged(st) /\ ErrorLogged
    \/ playNextSample /\ ErrorLogged
    \/ Tick /\ ErrorLogged
    \/ SinkDrain /\ ErrorLogged

SpecRecover == RecoverInit /\ [][RecoverNext]_vars

(***************************************************************************)
(* SpecAbandon: as SpecRecover, with a playlist that does not begin with   *)
(* the first sample among those the caller may set.  Here `events` holds   *)
(* the open error from the step that reports it until the caller's next    *)
(* command.                                                                *)
(***************************************************************************)
Descending(n) == [i \in 1..n |-> n + 1 - i]
AbandonPlaylists == Playlists \cup {Descending(MaxLen)}

AbandonInit ==
    /\ \E p \in AbandonPlaylists : Configured(p, 0, DefaultGap)
    /\ iterKind = "halt"
    /\ SfInit /\ sfUnopenable = {}
    /\ events = <<>>
    /\ elapsed = NotTimed

OpenErrorKept ==
    /\ events' =
          IF errorString(SOUND_SAMPLE_OPEN_ERROR) \in Range(emitted')
          THEN <<errorString(SOUND_SAMPLE_OPEN_ERROR)>>
          ELSE IF lastOp'.op \in {"playPlaylist", "setPlaylist"} THEN <<>> ELSE events
    /\ UNCHANGED <<elapsed, sfVars>>

AbandonNext ==
    \/ \E p \in AbandonPlaylists : setPlaylist(p) /\ OpenErrorKept
    \/ \E c \in {"Left", "Right"} : CanCommand /\ playPlaylist(c) /\ OpenErrorKept
    \/ \E st \in SinkStates : onStateChanged(st) /\ OpenErrorKept
    \/ playNextSample /\ OpenErrorKept
    \/ Tick /\ OpenErrorKept
    \/ SinkDrain /\ OpenErrorKept

SpecAbandon == AbandonInit /\ [][AbandonNext]_vars

(***************************************************************************)
(* SpecSingle: the single-file player under any order of its operations    *)
(* and of its sink's notifications.                                        *)
(***************************************************************************)
SfQuiet == UNCHANGED <<seqVars, events, elapsed>>
SfCanCommand == Len(sfDevice.queue) < MaxQueue

SingleNext ==
    \/ \E f \in FileSounds : setFileSound(f) /\ SfQuiet
    \/ \E v \in SfVolumes : setVolume(v) /\ SfQuiet
    \/ SfCanCommand /\ start /\ SfQuiet
    \/ SfCanCommand /\ stop /\ SfQuiet
    \/ \E st \in SinkStates : sfOnStateChanged(st) /\ SfQuiet
    \/ SfSinkDrain /\ SfQuiet
    \/ SfCanCommand /\ SfSinkSuspend /\ SfQuiet
    \/ SfSinkResume /\ SfQuiet

SingleInit ==
    /\ SfInit
    /\ SeqInit /\ iterKind = "halt" /\ unopenable = {}
    /\ events = <<>>
    /\ elapsed = NotTimed

SpecSingle == SingleInit /\ [][SingleNext]_vars

(***************************************************************************)
(* Properties                                                              *)
(***************************************************************************)
NoStart(ops) == \A i \in 1..Len(ops) : ops[i].op # "start"
IsPrefix(a, b) == Len(a) <= Len(b) /\ SubSeq(b, 1, Len(a)) = a
RunEnded == playlistEnded \in Range(events)
\* the stream a step fetched, when the step fetched one for channel Left or Right
FetchedDevice == <<playlistIter.list[playlistIter.pos], currentChannel>>
Fetched ==
    /\ lastOp.op \in {"playPlaylist", "playNextSample"}
    /\ sinkOps # <<>>
    /\ currentChannel \in {"Left", "Right"}

\* C1: in an uninterrupted run over a non-empty playlist whose streams all
\* open, on the left or right channel, playlistEnded is emitted at most once
\* at any time, only by a step that found the iterator exhausted (and the
\* iterator stays exhausted), and eventually it has been emitted exactly once.
C1_EndedStep ==
    playlistEnded \in Range(emitted') => ~IterHasNext(playlistIter)
C1_PlaylistEndedOnce ==
    /\ [](Count(events, playlistEnded) <= 1 /\ (RunEnded => ~IterHasNext(playlistIter)))
    /\ [][C1_EndedStep]_vars
    /\ <>[](Count(events, playlistEnded) = 1)
C1_Witness ==
    /\ RunEnded
    /\ Len(playlist) = MaxLen
    /\ playlistIter.pos = MaxLen
    /\ currentChannel = "Right"

\* C2: once stopPlaylist has been called on an Active sink (all earlier
\* notifications handled), the sink and the gap timer are stopped by the call,
\* and until the next playPlaylist the gap timer stays off, no step starts the
\* sink and no step emits any signal, also after the Stopped notification of
\* the stop itself has been handled.
C2_StopSilencesRun ==
    stoppedWhileActive =>
        /\ emitted = <<>>
        /\ NoStart(sinkOps)
        /\ timeGapTimer = TimerOff
        /\ lastOp.op = "stopPlaylist" => audioDevice.state = "Stopped"

\* C3: in the single-file player, after stop() and until the next start() no
\* step starts the sink and the sink stays stopped.
C3_NoRestartAfterStop ==
    sfStopped => NoStart(sfSinkOps) /\ sfDevice.state = "Stopped"

\* C4: playPlaylist on a playlist whose fresh iterator has no entry emits
\* exactly errorString(PLAYLIST_ERROR) and makes no call on the sink.
C4_EmptyPlaylist ==
    (/\ lastOp.op = "playPlaylist"
     /\ playlist # NoPlaylist
     /\ ~IterHasNext(PlaylistIterator(playlist)))
    => emitted = <<errorString(PLAYLIST_ERROR)>> /\ sinkOps = <<>>
C4_Witness ==
    /\ lastOp.op = "playPlaylist"
    /\ playlist = <<>>
    /\ emitted = <<errorString(PLAYLIST_ERROR)>>
    /\ audioDevice = NewSink

\* C5: a step of playPlaylist or playNextSample that fetches a stream which is
\* not open and cannot be opened emits errorString(SOUND_SAMPLE_OPEN_ERROR)
\* exactly once and does not start the sink.
C5_OpenFailure ==
    (Fetched /\ FetchedDevice \notin opened /\ ~Openable(FetchedDevice))
    => /\ Count(emitted, errorString(SOUND_SAMPLE_OPEN_ERROR)) = 1
       /\ NoStart(sinkOps)
C5_Witness ==
    /\ Fetched
    /\ lastOp.op = "playNextSample"
    /\ FetchedDevice \notin opened /\ ~Openable(FetchedDevice)
    /\ emitted = <<aboutToPlayNextElement, errorString(SOUND_SAMPLE_OPEN_ERROR)>>

\* C6: the offset is 0 until set, only setCorrectionAdjustVolume changes it and
\* it stores its argument; every step that starts a sample first sets the sink
\* volume to that sample's intrinsic volume plus the offset; and the data that
\* currentPlaylistElement carries are the intrinsic values of the iterator's
\* current sample.
C6_Step ==
    /\ lastOp'.op = "setCorrectionAdjustVolume" => volumeAdjust' = lastOp'.n
    /\ lastOp'.op # "setCorrectionAdjustVolume" => volumeAdjust' = volumeAdjust
    /\ \A i \in 1..Len(sinkOps') :
          sinkOps'[i].op = "start" =>
              /\ i = 2
              /\ sinkOps'[1] =
                    CallSetVolume(VolPercent(sinkOps'[i].dev[1]) + volumeAdjust)
    /\ \A e \in Range(emitted') :
          e.sig = "currentPlaylistElement" /\ playlistIter.pos >= 1 =>
              LET s == playlistIter.list[playlistIter.pos]
              IN e.data = <<Freq(s), VolDb(s), VolPercent(s)>>
C6_VolumeAdjustment == volumeAdjust = 0 /\ [][C6_Step]_vars
C6_Witness ==
    /\ lastOp.op = "playNextSample"
    /\ volumeAdjust = 5
    /\ sinkOps = <<CallSetVolume(VolPercent(2) + 5), CallStart(<<2, "Right">>)>>

\* C7: in an uninterrupted run the currentPlaylistElement,
\* aboutToPlayNextElement and playlistEnded signals emitted so far are a
\* prefix of: nowPlaying(e1), then aboutToPlayNextElement and nowPlaying(ei)
\* for each further entry, then aboutToPlayNextElement and playlistEnded; the
\* whole of it once playlistEnded is out; every aboutToPlayNextElement comes
\* right after the stopPlaying of an Idle that stopped the sink, and a gap is
\* only ever in progress then, with the sink stopped.
ShownSignal(e) ==
    e.sig \in {"currentPlaylistElement", "aboutToPlayNextElement", "playlistEnded"}
NowPlaying(s) == currentPlaylistElement(<<Freq(s), VolDb(s), VolPercent(s)>>)
RECURSIVE ExpectedFrom(_, _)
ExpectedFrom(p, i) ==
    IF i > Len(p) THEN <<aboutToPlayNextElement, playlistEnded>>
    ELSE (IF i > 1 THEN <<aboutToPlayNextElement>> ELSE <<>>)
         \o <<NowPlaying(p[i])>> \o ExpectedFrom(p, i + 1)
C7_EventOrder ==
    /\ IsPrefix(SelectSeq(events, ShownSignal), ExpectedFrom(playlist, 1))
    /\ RunEnded => SelectSeq(events, ShownSignal) = ExpectedFrom(playlist, 1)
    /\ \A i \in 1..Len(events) :
          events[i] = aboutToPlayNextElement => i > 1 /\ events[i - 1] = stopPlaying
    /\ TimerRunning =>
          /\ audioDevice.state = "Stopped"
          /\ events # <<>> /\ events[Len(events)] = stopPlaying
C7_Witness ==
    /\ playlist = <<1, 2>>
    /\ currentChannel = "Left"
    /\ noSoundTimeSpanMs = MaxGap
    /\ SelectSeq(events, ShownSignal) =
          <<NowPlaying(1), aboutToPlayNextElement, NowPlaying(2),
            aboutToPlayNextElement, playlistEnded>>

\* C8: a step of playPlaylist or playNextSample that fetches while the channel
\* is neither Left nor Right emits errorString(DIRECTION_ERROR), does not
\* start the sink and does not dereference the null stream.
C8_InvalidChannel ==
    (/\ lastOp.op \in {"playPlaylist", "playNextSample"}
     /\ currentChannel \notin {"Left", "Right"}
     /\ sinkOps # <<>>)
    => /\ errorString(DIRECTION_ERROR) \in Range(emitted)
       /\ NoStart(sinkOps)
       /\ ~crashed

\* C9 as claimed: a playPlaylist that fails with PLAYLIST_ERROR leaves the
\* iterator handle, the recorded channel, the gap timer and the sink as they were.
PlaylistErrorStep ==
    /\ lastOp'.op = "playPlaylist"
    /\ playlist # NoPlaylist
    /\ ~IterHasNext(PlaylistIterator(playlist))
C9_NothingMutated ==
    [][PlaylistErrorStep =>
          /\ playlistIter' = playlistIter
          /\ currentChannel' = currentChannel
          /\ timeGapTimer' = timeGapTimer
          /\ audioDevice' = audioDevice]_vars
\* C9 as amended: a playPlaylist that fails with PLAYLIST_ERROR leaves the gap
\* timer, the sink and the streams as they were; the iterator handle becomes
\* the fresh iterator of the playlist and the channel the requested one.
C9_DeviceUntouched ==
    [][PlaylistErrorStep =>
          /\ timeGapTimer' = timeGapTimer
          /\ audioDevice' = audioDevice
          /\ opened' = opened
          /\ playlistIter' = PlaylistIterator(playlist)
          /\ currentChannel' = lastOp'.ch]_vars
C9_Witness ==
    /\ lastOp.op = "playPlaylist"
    /\ lastOp.ch = "Right"
    /\ emitted = <<errorString(PLAYLIST_ERROR)>>
    /\ playlistIter = PlaylistIterator(<<>>)
    /\ currentChannel = "Right"

\* C10: once a run has been started, stopPlaylist called while the sink is
\* stopped does not fault, emits nothing, produces no notification and leaves
\* the sink stopped and the gap timer not running; called right after another
\* stopPlaylist it changes nothing at all.
ProgramState ==
    <<playlist, playlistIter, currentChannel, volumeAdjust, noSoundTimeSpanMs,
      timerInterval, timeGapTimer, audioDevice, opened, crashed>>
C10_Step ==
    (/\ lastOp'.op = "stopPlaylist"
     /\ playlistIter # NullIter
     /\ audioDevice.state = "Stopped")
    => /\ ~crashed'
       /\ emitted' = <<>>
       /\ audioDevice' = audioDevice
       /\ timeGapTimer' = TimerOff
       /\ lastOp.op = "stopPlaylist" => ProgramState' = ProgramState
C10_StopIdempotent == [][C10_Step]_vars
C10_Witness ==
    /\ lastOp.op = "stopPlaylist"
    /\ ~stoppedWhileActive
    /\ playlistIter.pos >= 1
    /\ audioDevice.state = "Stopped" /\ audioDevice.queue = <<>>
    /\ timeGapTimer = TimerOff

\* C11 as claimed: in the single-file player, while stop() has not been
\* called since the last start(), the handling of an Idle notification starts
\* the sink on the left stream of the current file; the handling of an Active,
\* Suspended or Stopped notification calls nothing on the sink and emits nothing.
SfHandled(state) == sfLastOp = Op("onStateChanged", state, 0)
SfOtherHandled ==
    sfLastOp.op = "onStateChanged" /\ sfLastOp.ch # "Idle"
        => sfSinkOps = <<>> /\ sfEmitted = <<>>
getNoSoundTimeSpanMs == noSoundTimeSpanMs
C12_Step ==
    /\ timerInterval' = getNoSoundTimeSpanMs'
    /\ IF lastOp'.op = "setNoSoundTimeSpanMs"
       THEN getNoSoundTimeSpanMs' = lastOp'.n
       ELSE getNoSoundTimeSpanMs' = getNoSoundTimeSpanMs
    /\ lastOp'.op = "playNextSample" /\ elapsed # NotTimed
          => elapsed = getNoSoundTimeSpanMs
    /\ (\E i \in 1..Len(sinkOps') : sinkOps'[i].op = "start")
          => \/ lastOp'.op = "playPlaylist"
             \/ lastOp'.op = "playNextSample" /\ timeGapTimer = 0
C12_GapDuration ==
    timerInterval = getNoSoundTimeSpanMs /\ [][C12_Step]_vars
C12_Witness ==
    /\ lastOp.op = "playNextSample"
    /\ noSoundTimeSpanMs = MaxGap
    /\ elapsed = MaxGap
    /\ playlistIter.pos = 2
    /\ \E i \in 1..Len(sinkOps) : sinkOps[i].op = "start"

\* C13: every playPlaylist for the left or right channel on a non-empty
\* playlist leaves the sequencer holding an iterator of the playlist that is on
\* the first entry, whatever iterator it held before, and the only stream it
\* sets up is the first entry's for the requested channel: it starts it on the
\* sink, or reports that it does not open.
FirstStream == <<playlist[1], lastOp.ch>>
C13_FreshRun ==
    (/\ lastOp.op = "playPlaylist" /\ lastOp.ch \in {"Left", "Right"}
     /\ playlist # NoPlaylist /\ playlist # <<>>)
    => /\ playlistIter = IterAdvance(PlaylistIterator(playlist))
       /\ currentChannel = lastOp.ch
       /\ IF Openable(FirstStream)
          THEN /\ sinkOps = <<CallSetVolume(VolPercent(playlist[1]) + volumeAdjust),
                              CallStart(FirstStream)>>
               /\ emitted = <<>>
          ELSE /\ NoStart(sinkOps)
               /\ emitted = <<errorString(SOUND_SAMPLE_OPEN_ERROR)>>
\* a run that had reached the second entry and was stopped, then a new run
C13_Witness ==
    /\ lastOp = Op("playPlaylist", "Right", 0)
    /\ playlist = <<1, 2>>
    /\ <<2, "Left">> \in opened
    /\ sinkOps = <<CallSetVolume(VolPercent(1)), CallStart(<<1, "Right">>)>>
    /\ playlistIter.pos = 1

\* C14: in the single-file player setFileSound(value) makes value the current
\* file when its left url is not empty, and otherwise leaves the current file
\* as it was; either way it emits nothing and does nothing to the sink or the
\* streams.  No other step changes the current file, every sink start is on
\* the left stream of the current file, and start() without a file does nothing.
C14_Step ==
    /\ IF sfLastOp'.op = "setFileSound"
       THEN /\ file' = IF getLeftSoundUrlIsEmpty(sfLastOp'.ch)
                        THEN file ELSE sfLastOp'.ch
            /\ sfEmitted' = <<>> /\ sfSinkOps' = <<>>
            /\ UNCHANGED <<sfDevice, sfOpened, sfStopped>>
       ELSE file' = file
    /\ \A i \in 1..Len(sfSinkOps') :
          sfSinkOps'[i].op = "start" =>
              file # NoFile /\ sfSinkOps'[i].dev = getSoundLeft(file)
    /\ sfLastOp'.op = "start" /\ file = NoFile =>
          sfSinkOps' = <<>> /\ sfEmitted' = <<>> /\ sfDevice' = sfDevice
C14_SetFileSound == [][C14_Step]_vars
\* a source without a left url was rejected while toneA plays
C14_Witness ==
    /\ sfLastOp = Op("setFileSound", "noLeft", 0)
    /\ file = "toneA"
    /\ sfDevice.state = "Active"

\* C15: no failure breaks the sequencer.  The process never faults, and once
\* a PLAYLIST_ERROR or a SOUND_SAMPLE_OPEN_ERROR has been reported, a
\* playPlaylist on a non-empty playlist whose first stream opens still starts
\* the sink on that first entry for the requested channel, with the iterator
\* on the first entry.
C15_Recovers ==
    /\ ~crashed
    /\ (/\ events # <<>>
        /\ lastOp.op = "playPlaylist"
        /\ playlist # <<>>
        /\ Openable(FirstStream))
       => /\ sinkOps = <<CallSetVolume(VolPercent(playlist[1]) + volumeAdjust),
                         CallStart(FirstStream)>>
          /\ emitted = <<>>
          /\ audioDevice.state = "Active"
          /\ playlistIter = IterAdvance(PlaylistIterator(playlist))
\* after both kinds of failure a new run has played a whole playlist
C15_Witness ==
    /\ errorString(PLAYLIST_ERROR) \in Range(events)
    /\ errorString(SOUND_SAMPLE_OPEN_ERROR) \in Range(events)
    /\ lastOp.op = "playNextSample"
    /\ emitted = <<aboutToPlayNextElement, playlistEnded>>
    /\ playlist = <<1, 1>>
    /\ playlistIter = [list |-> <<1, 1>>, pos |-> 2, halted |-> FALSE]

\* C16: in every reachable state the gap timer is not running while the sink
\* is playing a sample; in particular a playPlaylist that starts a sample
\* leaves no gap timer running.
C16_TimerExclusive ==
    /\ TimerRunning => audioDevice.state # "Active"
    /\ lastOp.op = "playPlaylist" /\ ~NoStart(sinkOps) => ~TimerRunning

\* C17: the sink has at most one sample in flight: no step of the sequencer
\* issues a sink start while the sample started before is in flight (started,
\* and neither played to its end nor stopped).  Stated for the starts that
\* the expiry of the gap timer issues, which no caller has asked for.
InFlight == audioDevice.state \in {"Active", "Suspended"}
C17_Step ==
    lastOp'.op = "playNextSample" /\ ~NoStart(sinkOps') => ~InFlight
C17_OneInFlight == [][C17_Step]_vars

\* C18: an absent iterator is never dereferenced: stopPlaylist,
\* skipCurrentSoundSet, playNextSample and the Active handler, which all use
\* the iterator, run only while the sequencer holds one, and the process
\* never faults on it.
UsesIterator(op) ==
    \/ op.op \in {"stopPlaylist", "skipCurrentSoundSet", "playNextSample"}
    \/ op = Op("onStateChanged", "Active", 0)
C18_Step ==
    UsesIterator(lastOp') => playlistIter # NullIter /\ ~crashed'
C18_IteratorHeld == [][C18_Step]_vars

\* C19: from the step that reports SOUND_SAMPLE_OPEN_ERROR until the caller's
\* next command, no step starts the sink, the gap timer is not running, and
\* no currentPlaylistElement, aboutToPlayNextElement or playlistEnded is
\* emitted.
Abandoned == events # <<>>
C19_Step ==
    Abandoned /\ lastOp'.op \notin {"playPlaylist", "setPlaylist"}
    => /\ NoStart(sinkOps')
       /\ timeGapTimer' = TimerOff
       /\ \A e \in Range(emitted') : ~ShownSignal(e)
C19_Abandoned == [][C19_Step]_vars

\* C20: the handling of an Idle notification calls stop on the sink exactly
\* once and emits stopPlaying exactly once, and when the sink was idle this
\* stop makes the Stopped transition; the handling of a Stopped notification
\* starts the gap timer with its interval and does nothing else; the timer is
\* single-shot, so playNextSample runs at its expiry and leaves it off; the
\* handling of an Active notification emits exactly one
\* currentPlaylistElement, and that of a Suspended notification does nothing.
Handled(state) == lastOp' = Op("onStateChanged", state, 0)
C20_Step ==
    /\ Handled("Idle") =>
          /\ sinkOps' = <<CallStop>>
          /\ emitted' = <<stopPlaying>>
          /\ timeGapTimer' = timeGapTimer
          /\ audioDevice'.state = "Stopped"
          /\ audioDevice.state = "Idle" =>
                audioDevice'.queue = Append(Tail(audioDevice.queue), "Stopped")
    /\ Handled("Stopped") =>
          /\ timeGapTimer' = timerInterval /\ timerInterval >= 1
          /\ sinkOps' = <<>> /\ emitted' = <<>>
          /\ audioDevice' = SinkPop(audioDevice)
    /\ Handled("Active") /\ ~crashed' =>
          /\ emitted' = <<currentPlaylistElement(IterCurrent(playlistIter))>>
          /\ sinkOps' = <<>>
          /\ timeGapTimer' = timeGapTimer
    /\ Handled("Suspended") =>
          /\ emitted' = <<>> /\ sinkOps' = <<>>
          /\ timeGapTimer' = timeGapTimer
          /\ audioDevice' = SinkPop(audioDevice)
    /\ lastOp'.op = "playNextSample" =>
          /\ timeGapTimer = 0 /\ timeGapTimer' = TimerOff
          /\ Count(emitted', aboutToPlayNextElement) = 1
C20_HandlerEffects == [][C20_Step]_vars
\* a sample played to its end and the Idle handler stopped the sink
C20_Witness ==
    /\ lastOp = Op("onStateChanged", "Idle", 0)
    /\ sinkOps = <<CallStop>>
    /\ emitted = <<stopPlaying>>
    /\ audioDevice.state = "Stopped" /\ audioDevice.queue = <<"Stopped">>
    /\ playlistIter.pos = 1

====
